---------------------------- MODULE Spec2Model ----------------------------
(***************************************************************************)
(* flask_shadowsession: a Flask session whose cookie carries a short key   *)
(* while the "shadow" fields live in a Redis hash under that key.          *)
(*                                                                         *)
(* The model follows src/src/flask_shadowsession/flask_shadowsession.py.   *)
(* Every request owns one ShadowSession (the cookie-side mapping `sess`)   *)
(* and its ShadowSessionDict (key, redis, max_age, accessed).  All         *)
(* requests share one Redis keyspace (`store`).  An operation that issues  *)
(* several Redis calls is a sequence of steps, one per call, so that the   *)
(* calls of concurrent requests can interleave (SpecCreate, SpecConc,     *)
(* SpecShared, SpecRequests); under Spec, SpecVisit, SpecAging, SpecDelete *)
(* and SpecOverride an operation runs to completion before another request *)
(* or the clock may take a step.  A finished operation rests at            *)
(* pc = "returned", its frame (op, ret, err) still in place, until its      *)
(* caller resumes.                                                         *)
(***************************************************************************)
EXTENDS Integers, Sequences, FiniteSets, TLC

\* ---------------------------------------------------------------- bounds
NumReq == 2        \* concurrent requests (workers)
NumClients == 2    \* browsers, each holding one cookie
NumKeys == 2       \* distinct values the key generator can return
NumVals == 2       \* distinct field values
Lifetime == 2      \* app.permanent_session_lifetime, in seconds
MaxOverride == 3   \* the application configures a max_age override in 0..MaxOverride
MaxAttempts == 2   \* iterations of _create_hash's loop (100 in the source)

\* ------------------------------------------------------ program constants
SHADOW_KEY_NAME == "shadow_key"
PERMANENT_NAME == "_permanent"
_force_shadow_fields == {"_flashes"}

Reqs == 1..NumReq
Clients == 1..NumClients
Keys == {"k" \o ToString(i) : i \in 1..NumKeys}
Vals == {"v" \o ToString(i) : i \in 1..NumVals}
None == "None"

\* Field names the application uses through the session (session[name]) and
\* directly on the shadow (session.shadow[name]).
SessionFields == {"a", "_flashes"}
ShadowFields == {"b"}

\* Option values: <<>> is Python's None, <<n>> the integer n.
Some(n) == <<n>>

\* ------------------------------------------------------- mappings (dicts)
EmptyMap == [x \in {} |-> None]
MapSet(m, f, v) == [x \in (DOMAIN m) \cup {f} |-> IF x = f THEN v ELSE m[x]]
MapDel(m, f) == [x \in (DOMAIN m) \ {f} |-> m[x]]
MapGet(m, f, default) == IF f \in DOMAIN m THEN m[f] ELSE default

VARIABLES
    store,          \* Redis: [hashes, strings, ttl]
    cookie,         \* cookie[c]: the payload the browser c holds (EmptyMap: none)
    iface_redis,    \* ShadowSessionInterface.redis
    iface_max_age,  \* ShadowSessionInterface.max_age (an Option)
    phase,          \* phase[r]: "none" | "open" | "unbound"
    client,         \* client[r]: the browser request r came from
    sess,           \* sess[r]: the cookie-side mapping of r's ShadowSession
    modified,       \* session.modified
    key,            \* shadow.key
    redis,          \* shadow.redis
    max_age,        \* shadow.max_age (an Option)
    accessed,       \* shadow.accessed
    pc,             \* position of r inside its current operation
    op,             \* the operation in progress or just returned: [name, f, v]
    attempts,       \* completed iterations of _create_hash's loop
    possible_key,   \* _create_hash locals
    reserve_key,
    new_key,
    owner,          \* history: which request set each reservation marker
    ret,            \* what the operation returned to its caller
    err,            \* what the operation raised ("ok": nothing)
    script,         \* script[r]: where r's caller stands in a scripted scenario
    want            \* want[r]: the values the scenario's caller wrote

storeVars == <<store, owner>>
ifaceVars == <<iface_redis, iface_max_age>>
sessVars == <<phase, client, sess, modified>>
shadowVars == <<key, redis, max_age, accessed>>
frameVars == <<pc, op, attempts, possible_key, reserve_key, new_key>>
resultVars == <<ret, err>>
callerVars == <<script, want>>
vars == <<store, owner, cookie, iface_redis, iface_max_age, phase, client, sess,
          modified, key, redis, max_age, accessed, pc, op, attempts,
          possible_key, reserve_key, new_key, ret, err, script, want>>

\* ------------------------------------------------------------------ Redis
\* One keyspace: hash keys (name -> field map), string keys (the "-reserved"
\* markers, value 1) and the remaining seconds of the keys that have an expiry.
EmptyStore == [hashes |-> EmptyMap, strings |-> {}, ttl |-> EmptyMap]

Exists(S, name) == name \in DOMAIN S.hashes \/ name \in S.strings

Delete(S, name) ==
    [hashes |-> MapDel(S.hashes, name),
     strings |-> S.strings \ {name},
     ttl |-> MapDel(S.ttl, name)]

\* SETNX succeeds exactly when the name is absent.
SetNXOk(S, name) == ~Exists(S, name)
SetNX(S, name) ==
    IF Exists(S, name) THEN S ELSE [S EXCEPT !.strings = @ \cup {name}]

\* EXPIRE: no effect on a missing key; a non-positive timeout deletes the key.
Expire(S, name, secs) ==
    IF ~Exists(S, name) THEN S
    ELSE IF secs <= 0 THEN Delete(S, name)
    ELSE [S EXCEPT !.ttl = MapSet(@, name, secs)]

\* RENAMENX: an error when the source is missing; no effect when the target
\* exists; otherwise the value moves together with its expiry.
RenameNXError(S, old) == ~Exists(S, old)
RenameNX(S, old, new) ==
    IF ~Exists(S, old) \/ Exists(S, new) THEN S
    ELSE [hashes |-> MapSet(MapDel(S.hashes, old), new, S.hashes[old]),
          strings |-> S.strings,
          ttl |-> IF old \in DOMAIN S.ttl
                  THEN MapSet(MapDel(S.ttl, old), new, S.ttl[old])
                  ELSE MapDel(S.ttl, old)]

HFields(S, name) == MapGet(S.hashes, name, EmptyMap)
HExists(S, name, f) == f \in DOMAIN HFields(S, name)
HGet(S, name, f) == MapGet(HFields(S, name), f, None)
HLen(S, name) == Cardinality(DOMAIN HFields(S, name))
HSet(S, name, f, v) ==
    [S EXCEPT !.hashes = MapSet(@, name, MapSet(HFields(S, name), f, v))]
\* HDEL removes the key itself with its last field.
HDel(S, name, f) ==
    IF ~HExists(S, name, f) THEN S
    ELSE IF DOMAIN HFields(S, name) = {f} THEN Delete(S, name)
    ELSE [S EXCEPT !.hashes = MapSet(@, name, MapDel(HFields(S, name), f))]

\* One second passes: every expiry counts down and the keys that reach 0 go.
Elapse(S) ==
    LET dead == {n \in DOMAIN S.ttl : S.ttl[n] <= 1}
        live == (DOMAIN S.ttl) \ dead
    IN [hashes |-> [n \in (DOMAIN S.hashes) \ dead |-> S.hashes[n]],
        strings |-> S.strings \ dead,
        ttl |-> [n \in live |-> S.ttl[n] - 1]]


\* ------------------------------------------------------------ call frames
NoOp == [name |-> "none", f |-> None, v |-> None]
Frame(name) == [name |-> name, f |-> None, v |-> None]
ItemFrame(name, f, v) == [name |-> name, f |-> f, v |-> v]
OpNames == {"get", "set", "del", "contains", "pop"}
ArgVals(name) == IF name = "set" THEN Vals ELSE {None}
BoolStr(b) == IF b THEN "True" ELSE "False"

\* The operation `frame` of r ends, returning `value` or raising `raised`.
Return(r, frame, value, raised) ==
    /\ pc' = [pc EXCEPT ![r] = "returned"]
    /\ op' = [op EXCEPT ![r] = frame]
    /\ attempts' = [attempts EXCEPT ![r] = 0]
    /\ possible_key' = [possible_key EXCEPT ![r] = None]
    /\ reserve_key' = [reserve_key EXCEPT ![r] = None]
    /\ new_key' = [new_key EXCEPT ![r] = None]
    /\ ret' = [ret EXCEPT ![r] = value]
    /\ err' = [err EXCEPT ![r] = raised]

\* The caller takes the result and goes on.
Taken(r) ==
    /\ pc[r] = "returned"
    /\ pc' = [pc EXCEPT ![r] = "idle"]
    /\ op' = [op EXCEPT ![r] = NoOp]
    /\ ret' = [ret EXCEPT ![r] = None]
    /\ err' = [err EXCEPT ![r] = "ok"]
    /\ UNCHANGED <<storeVars, cookie, ifaceVars, sessVars, shadowVars, attempts,
                   possible_key, reserve_key, new_key>>

Resume(r) == Taken(r) /\ UNCHANGED callerVars

Idle(r) == phase[r] = "open" /\ pc[r] = "idle"

\* After construction: no Redis connection and no max_age override are
\* configured, no session exists.
Init ==
    /\ store = EmptyStore
    /\ owner = EmptyMap
    /\ cookie = [c \in Clients |-> EmptyMap]
    /\ iface_redis = None
    /\ iface_max_age = <<>>
    /\ phase = [r \in Reqs |-> "none"]
    /\ client = [r \in Reqs |-> 1]
    /\ sess = [r \in Reqs |-> EmptyMap]
    /\ modified = [r \in Reqs |-> FALSE]
    /\ key = [r \in Reqs |-> None]
    /\ redis = [r \in Reqs |-> None]
    /\ max_age = [r \in Reqs |-> <<>>]
    /\ accessed = [r \in Reqs |-> FALSE]
    /\ pc = [r \in Reqs |-> "idle"]
    /\ op = [r \in Reqs |-> NoOp]
    /\ attempts = [r \in Reqs |-> 0]
    /\ possible_key = [r \in Reqs |-> None]
    /\ reserve_key = [r \in Reqs |-> None]
    /\ new_key = [r \in Reqs |-> None]
    /\ ret = [r \in Reqs |-> None]
    /\ err = [r \in Reqs |-> "ok"]
    /\ script = [r \in Reqs |-> "free"]
    /\ want = [r \in Reqs |-> EmptyMap]

\* Nothing has happened yet.
Fresh ==
    /\ store = EmptyStore
    /\ \A c \in Clients : cookie[c] = EmptyMap
    /\ \A r \in Reqs : phase[r] = "none" /\ pc[r] = "idle"

\* ShadowSessionInterface.redis = handle, at application start-up.
SetRedis(handle) ==
    /\ Fresh
    /\ iface_redis = None
    /\ iface_redis' = handle
    /\ UNCHANGED <<callerVars, storeVars, cookie, iface_max_age, sessVars, shadowVars,
                   frameVars, resultVars>>

\* app.session_interface.max_age = n, at application start-up.
SetMaxAge(n) ==
    /\ Fresh
    /\ iface_max_age = <<>>
    /\ iface_max_age' = Some(n)
    /\ UNCHANGED <<callerVars, storeVars, cookie, iface_redis, sessVars, shadowVars,
                   frameVars, resultVars>>

\* ------------------------------------------- ShadowSessionInterface (open)
\* max_age = self.max_age or total_seconds(app.permanent_session_lifetime)
EffectiveMaxAge(override) ==
    IF override # <<>> /\ override[1] # 0 THEN override[1] ELSE Lifetime

\* The isinstance checks of ShadowSessionDict.open_session.
\* A validation that looks at the handle only.
OpenTypeError_HandleOnly(session_class, handle) == handle # "Redis"

OpenTypeError(session_class, handle) ==
    session_class # "ShadowSession" \/ handle # "Redis"

\* ShadowSessionDict.open_session(session, redis, max_age) on r's shadow; the
\* session passed is of class session_class and holds `decoded`.
ShadowOpenSession(r, session_class, handle, age, decoded) ==
    LET frame == [name |-> "open", f |-> session_class, v |-> handle]
    IN IF OpenTypeError(session_class, handle)
       THEN /\ phase' = [phase EXCEPT ![r] = IF @ = "none" THEN "unbound" ELSE @]
            /\ Return(r, frame, None, "TypeError")
            /\ UNCHANGED <<key, redis, max_age, accessed>>
       ELSE /\ phase' = [phase EXCEPT ![r] = "open"]
            /\ Return(r, frame, None, "ok")
            /\ accessed' = [accessed EXCEPT ![r] = FALSE]
            /\ redis' = [redis EXCEPT ![r] = handle]
            /\ key' = [key EXCEPT ![r] = MapGet(decoded, SHADOW_KEY_NAME, None)]
            /\ max_age' = [max_age EXCEPT ![r] = age]

\* ShadowSessionInterface.open_session for a request of browser c: the cookie
\* is decoded into a ShadowSession, made non-permanent (which stores
\* "_permanent" in the cookie-side mapping), and its shadow is bound.
Open(r, c) ==
    /\ phase[r] = "none"
    /\ pc[r] = "idle"
    /\ LET decoded == MapSet(cookie[c], PERMANENT_NAME, "False")
       IN /\ sess' = [sess EXCEPT ![r] = decoded]
          /\ modified' = [modified EXCEPT ![r] = TRUE]
          /\ client' = [client EXCEPT ![r] = c]
          /\ ShadowOpenSession(r, "ShadowSession", iface_redis,
                               Some(EffectiveMaxAge(iface_max_age)), decoded)
    /\ UNCHANGED <<callerVars, storeVars, cookie, ifaceVars>>

\* The application calls session.shadow.open_session(session, handle, max_age)
\* itself on its bound record, with whatever it holds for a session and a
\* connection.
SessionClasses == {"ShadowSession", "SecureCookieSession"}
Handles == {"Redis", None, "NotRedis"}
DirectOpen(r, session_class, handle) ==
    /\ Idle(r)
    /\ ShadowOpenSession(r, session_class, handle, max_age[r], sess[r])
    /\ UNCHANGED <<callerVars, storeVars, cookie, ifaceVars, client, sess, modified>>

\* The request is over and its session object is gone.
EndRequest(r) ==
    /\ phase[r] # "none"
    /\ pc[r] = "idle"
    /\ phase' = [phase EXCEPT ![r] = "none"]
    /\ client' = [client EXCEPT ![r] = 1]
    /\ sess' = [sess EXCEPT ![r] = EmptyMap]
    /\ modified' = [modified EXCEPT ![r] = FALSE]
    /\ key' = [key EXCEPT ![r] = None]
    /\ redis' = [redis EXCEPT ![r] = None]
    /\ max_age' = [max_age EXCEPT ![r] = <<>>]
    /\ accessed' = [accessed EXCEPT ![r] = FALSE]
    /\ UNCHANGED <<callerVars, storeVars, cookie, ifaceVars, frameVars, resultVars>>

\* ------------------------------------------- ShadowSessionInterface (save)
\* A cookie collaborator that never writes the cookie.
CookieAfterSave_Stale(old, mapping, mod) == old

\* A save that adds max_age to the time the record has left.
SavePipeline_Extends(S, r) ==
    IF max_age[r] # <<>>
    THEN Expire(S, key[r], MapGet(S.ttl, key[r], 0) + max_age[r][1])
    ELSE S

\* The cookie collaborator: an empty modified session deletes the cookie, a
\* non-empty modified one is serialized from the cookie-side mapping.
CookieAfterSave(old, mapping, mod) ==
    IF mod THEN mapping ELSE old

\* A guard that forgets the accessed flag.
SaveGuard_KeyOnly(r) == key[r] # None

\* ShadowSessionDict.save_session: the guard, and the pipeline it executes.
SaveGuard(r) == accessed[r] /\ key[r] # None

\* A save pipeline that carries no expire.
SavePipeline_NoExpire(S, r) == S

SavePipeline(S, r) ==
    IF max_age[r] # <<>> THEN Expire(S, key[r], max_age[r][1]) ELSE S
ShadowSaveSession(S, r) == IF SaveGuard(r) THEN SavePipeline(S, r) ELSE S

Save(r) ==
    /\ Idle(r)
    /\ cookie' = [cookie EXCEPT ![client[r]] = CookieAfterSave(@, sess[r], modified[r])]
    /\ store' = ShadowSaveSession(store, r)
    /\ Return(r, Frame("save"), None, "ok")
    /\ UNCHANGED <<callerVars, owner, ifaceVars, sessVars, shadowVars>>

\* ----------------------------------------------------------- ShadowSession
\* Routings that send every field one way.
RoutedToShadow_Never(name) == FALSE
RoutedToShadow_Always(name) == TRUE

\* The routing test of ShadowSession.__getitem__ and its four siblings.
RoutedToShadow(name) == name \in _force_shadow_fields

\* The inherited cookie-side mapping (a dict): one local step.
CookieItem(r, name, f, v) ==
    LET m == sess[r]
        has == f \in DOMAIN m
    IN /\ sess' = [sess EXCEPT ![r] =
                     IF name = "set" THEN MapSet(m, f, v)
                     ELSE IF name \in {"del", "pop"} THEN MapDel(m, f)
                     ELSE m]
       /\ modified' = [modified EXCEPT ![r] =
                     @ \/ name = "set" \/ (name \in {"del", "pop"} /\ has)]
       /\ Return(r, ItemFrame(name, f, v),
                 IF name \in {"get", "pop"} /\ has THEN m[f]
                 ELSE IF name = "contains" THEN BoolStr(has)
                 ELSE None,
                 IF name \in {"get", "del", "pop"} /\ ~has THEN "KeyError" ELSE "ok")
       /\ UNCHANGED <<callerVars, storeVars, cookie, ifaceVars, phase, client, shadowVars>>

\* ShadowSessionDict.__getitem__/__setitem__/__delitem__ mark the record and
\* the session before anything else; __contains__ is the base class's.
MarksAccess_WritesOnly(name) == name \in {"set", "del"}

MarksAccess(name) == name \in {"get", "set", "del", "pop"}

\* A _check_state that creates a key on every operation.
NeedsKey_Always(r) == TRUE

\* _check_state: with no key, _create_hash runs first.
NeedsKey(r) == key[r] = None

\* A shadow item operation begins: the marks, then _check_state.
ShadowItem(r, name, f, v) ==
    /\ accessed' = [accessed EXCEPT ![r] = @ \/ MarksAccess(name)]
    /\ modified' = [modified EXCEPT ![r] = @ \/ MarksAccess(name)]
    /\ op' = [op EXCEPT ![r] = ItemFrame(name, f, v)]
    /\ pc' = [pc EXCEPT ![r] = IF NeedsKey(r) THEN "reserve" ELSE "op"]
    /\ UNCHANGED <<callerVars, storeVars, cookie, ifaceVars, phase, client, sess, key, redis,
                   max_age, attempts, possible_key, reserve_key, new_key, resultVars>>

\* session[name], session[name] = v, del session[name], name in session,
\* session.pop(name)
SessionItem(r, name, f, v) ==
    /\ Idle(r)
    /\ IF RoutedToShadow(f) THEN ShadowItem(r, name, f, v)
       ELSE CookieItem(r, name, f, v)

\* The same five operations on session.shadow directly.
ShadowDirect(r, name, f, v) ==
    /\ Idle(r)
    /\ ShadowItem(r, name, f, v)

\* regenerate_key()
Regenerate(r) ==
    /\ Idle(r)
    /\ op' = [op EXCEPT ![r] = Frame("regen")]
    /\ pc' = [pc EXCEPT ![r] = "reserve"]
    /\ UNCHANGED <<callerVars, storeVars, cookie, ifaceVars, sessVars, shadowVars, attempts,
                   possible_key, reserve_key, new_key, resultVars>>

\* ------------------------------------------------------------ _create_hash
ReserveName(k) == k \o "-reserved"

\* A loop that starts over instead of giving up.
NextAttempt_Endless(r) ==
    /\ attempts' = [attempts EXCEPT ![r] = 0]
    /\ pc' = [pc EXCEPT ![r] = "reserve"]
    /\ possible_key' = [possible_key EXCEPT ![r] = None]
    /\ reserve_key' = [reserve_key EXCEPT ![r] = None]
    /\ UNCHANGED <<op, new_key, resultVars>>

\* The loop's iteration ends: the next one, or the ValueError after the last.
NextAttempt(r) ==
    IF attempts[r] + 1 < MaxAttempts
    THEN /\ attempts' = [attempts EXCEPT ![r] = @ + 1]
         /\ pc' = [pc EXCEPT ![r] = "reserve"]
         /\ possible_key' = [possible_key EXCEPT ![r] = None]
         /\ reserve_key' = [reserve_key EXCEPT ![r] = None]
         /\ UNCHANGED <<op, new_key, resultVars>>
    ELSE Return(r, op[r], None, "ValueError")

\* possible_key = self._generate_key(); self.redis.setnx(reserve_key, 1)
Reserve(r, k) ==
    /\ pc[r] = "reserve"
    /\ IF SetNXOk(store, ReserveName(k))
       THEN /\ store' = SetNX(store, ReserveName(k))
            /\ owner' = MapSet(owner, ReserveName(k), r)
            /\ possible_key' = [possible_key EXCEPT ![r] = k]
            /\ reserve_key' = [reserve_key EXCEPT ![r] = ReserveName(k)]
            /\ pc' = [pc EXCEPT ![r] = "check"]
            /\ UNCHANGED <<op, attempts, new_key, resultVars>>
       ELSE /\ NextAttempt(r)
            /\ UNCHANGED storeVars
    /\ UNCHANGED <<callerVars, cookie, ifaceVars, sessVars, shadowVars>>

\* if not self.redis.exists(possible_key): new_key = possible_key; break
Check(r) ==
    /\ pc[r] = "check"
    /\ IF ~Exists(store, possible_key[r])
       THEN /\ new_key' = [new_key EXCEPT ![r] = possible_key[r]]
            /\ pc' = [pc EXCEPT ![r] = "pipeline"]
       ELSE /\ pc' = [pc EXCEPT ![r] = "unreserve"]
            /\ UNCHANGED new_key
    /\ UNCHANGED <<callerVars, storeVars, cookie, ifaceVars, sessVars, shadowVars, op, attempts,
                   possible_key, reserve_key, resultVars>>

\* self.redis.delete(reserve_key)
Unreserve(r) ==
    /\ pc[r] = "unreserve"
    /\ store' = Delete(store, reserve_key[r])
    /\ owner' = MapDel(owner, reserve_key[r])
    /\ NextAttempt(r)
    /\ UNCHANGED <<callerVars, cookie, ifaceVars, sessVars, shadowVars>>

\* A pipeline that leaves the reservation behind.
CreatePipeline_KeepsMarker(S, old, new, age, reserved) ==
    LET renamed == IF old = None THEN S ELSE RenameNX(S, old, new)
    IN IF age # <<>> THEN Expire(renamed, new, age[1]) ELSE renamed

\* A pipeline that adopts the new key without renaming the record.
CreatePipeline_NoRename(S, old, new, age, reserved) ==
    LET expired == IF age # <<>> THEN Expire(S, new, age[1]) ELSE S
    IN IF reserved # None THEN Delete(expired, reserved) ELSE expired

\* The pipeline of _create_hash as Redis executes it (MULTI/EXEC: every queued
\* command runs, an error is raised afterwards).
CreatePipeline(S, old, new, age, reserved) ==
    LET renamed == IF old = None THEN S ELSE RenameNX(S, old, new)
        expired == IF age # <<>> THEN Expire(renamed, new, age[1]) ELSE renamed
    IN IF reserved # None THEN Delete(expired, reserved) ELSE expired
CreatePipelineError(S, old) == old # None /\ RenameNXError(S, old)

\* p.execute(), then self.session[SHADOW_KEY_NAME] = self.key and the return
\* to regenerate_key's caller or to _check_state's.
Pipeline(r) ==
    /\ pc[r] = "pipeline"
    /\ store' = CreatePipeline(store, key[r], new_key[r], max_age[r], reserve_key[r])
    /\ owner' = MapDel(owner, reserve_key[r])
    /\ key' = [key EXCEPT ![r] = new_key[r]]
    /\ IF CreatePipelineError(store, key[r])
       THEN /\ Return(r, op[r], None, "ResponseError")
            /\ UNCHANGED <<sess, modified>>
       ELSE /\ sess' = [sess EXCEPT ![r] = MapSet(@, SHADOW_KEY_NAME, new_key[r])]
            /\ modified' = [modified EXCEPT ![r] = TRUE]
            /\ IF op[r].name = "regen"
               THEN Return(r, op[r], new_key[r], "ok")
               ELSE /\ pc' = [pc EXCEPT ![r] = "op"]
                    /\ attempts' = [attempts EXCEPT ![r] = 0]
                    /\ possible_key' = [possible_key EXCEPT ![r] = None]
                    /\ reserve_key' = [reserve_key EXCEPT ![r] = None]
                    /\ new_key' = [new_key EXCEPT ![r] = None]
                    /\ UNCHANGED <<op, resultVars>>
    /\ UNCHANGED <<callerVars, cookie, ifaceVars, phase, client, redis, max_age, accessed>>


\* ------------------------------------------- the hash operation on the key
\* A write that stores the record as a whole, with nothing but its field.
ItemStore_WholeRecord(S, k, name, f, v) ==
    IF name = "set" THEN [S EXCEPT !.hashes = MapSet(@, k, MapSet(EmptyMap, f, v))]
    ELSE IF name = "del" THEN HDel(S, k, f)
    ELSE S

\* What the item operation leaves in Redis (HSET, HDEL; the reads leave it).
ItemStore(S, k, name, f, v) ==
    IF name = "set" THEN HSet(S, k, f, v)
    ELSE IF name = "del" THEN HDel(S, k, f)
    ELSE S

\* What it returns (HGET, HEXISTS).
ItemResult(S, k, name, f) ==
    IF name \in {"get", "pop"} THEN HGet(S, k, f)
    ELSE IF name = "contains" THEN BoolStr(HExists(S, k, f))
    ELSE None

\* The Redis call of the item operation, on the current key.  A missing field
\* is a KeyError for a read; whether deleting a missing field raises is the
\* base class's choice, and both outcomes are kept.
DoOp(r) ==
    /\ pc[r] = "op"
    /\ LET name == op[r].name
           f == op[r].f
           has == HExists(store, key[r], f)
       IN /\ store' = ItemStore(store, key[r], name, f, op[r].v)
          /\ IF name = "pop" /\ has
             THEN /\ pc' = [pc EXCEPT ![r] = "pop_del"]
                  /\ ret' = [ret EXCEPT ![r] = ItemResult(store, key[r], name, f)]
                  /\ UNCHANGED <<op, attempts, possible_key, reserve_key, new_key, err>>
             ELSE \E raised \in (IF has \/ name \in {"set", "contains"} THEN {"ok"}
                                 ELSE IF name = "del" THEN {"ok", "KeyError"}
                                 ELSE {"KeyError"}) :
                     Return(r, op[r], ItemResult(store, key[r], name, f), raised)
    /\ UNCHANGED <<callerVars, owner, cookie, ifaceVars, sessVars, shadowVars>>

\* pop's second half: del self[name]
PopDel(r) ==
    /\ pc[r] = "pop_del"
    /\ store' = HDel(store, key[r], op[r].f)
    /\ Return(r, op[r], ret[r], "ok")
    /\ UNCHANGED <<callerVars, owner, cookie, ifaceVars, sessVars, shadowVars>>

\* ------------------------------------------------------- exists(), delete()
\* An exists() that keeps the key of the missing record.
ForgetKey_KeepsKey(r) ==
    /\ sess' = [sess EXCEPT ![r] = MapDel(@, SHADOW_KEY_NAME)]
    /\ modified' = [modified EXCEPT ![r] = @ \/ SHADOW_KEY_NAME \in DOMAIN sess[r]]
    /\ UNCHANGED key

\* The cookie-side mapping without its shadow key.
ForgetKey(r) ==
    /\ sess' = [sess EXCEPT ![r] = MapDel(@, SHADOW_KEY_NAME)]
    /\ modified' = [modified EXCEPT ![r] = @ \/ SHADOW_KEY_NAME \in DOMAIN sess[r]]
    /\ key' = [key EXCEPT ![r] = None]

ExistsOp(r) ==
    /\ Idle(r)
    /\ key[r] # None
    /\ LET rv == Exists(store, key[r])
       IN /\ IF rv THEN UNCHANGED <<sess, modified, key>> ELSE ForgetKey(r)
          /\ Return(r, Frame("exists"), BoolStr(rv), "ok")
    /\ UNCHANGED <<callerVars, storeVars, cookie, ifaceVars, phase, client, redis, max_age, accessed>>

\* A delete() that forgets the key but leaves the record in the store.
DeleteOp_KeepsRecord(r) ==
    /\ Idle(r)
    /\ key[r] # None
    /\ ForgetKey(r)
    /\ Return(r, Frame("delete"), None, "ok")
    /\ UNCHANGED <<callerVars, storeVars, cookie, ifaceVars, phase, client, redis, max_age,
                   accessed>>

DeleteOp(r) ==
    /\ Idle(r)
    /\ key[r] # None
    /\ store' = Delete(store, key[r])
    /\ ForgetKey(r)
    /\ Return(r, Frame("delete"), None, "ok")
    /\ UNCHANGED <<callerVars, owner, cookie, ifaceVars, phase, client, redis, max_age, accessed>>

\* ------------------------------------------------------------------- time
Tick ==
    /\ DOMAIN store.ttl # {}
    /\ store' = Elapse(store)
    /\ UNCHANGED <<callerVars, owner, cookie, ifaceVars, sessVars, shadowVars, frameVars, resultVars>>

\* ------------------------------------------------------- specifications
\* Every step request r can take, its requests coming from the browsers C.
Step(r, C) ==
    \/ \E c \in C : Open(r, c)
    \/ \E cls \in SessionClasses, handle \in Handles : DirectOpen(r, cls, handle)
    \/ Resume(r)
    \/ EndRequest(r)
    \/ Save(r)
    \/ \E name \in OpNames, f \in SessionFields : \E v \in ArgVals(name) :
          SessionItem(r, name, f, v)
    \/ \E name \in OpNames, f \in ShadowFields : \E v \in ArgVals(name) :
          ShadowDirect(r, name, f, v)
    \/ Regenerate(r)
    \/ ExistsOp(r)
    \/ DeleteOp(r)
    \/ \E k \in Keys : Reserve(r, k)
    \/ Check(r)
    \/ Unreserve(r)
    \/ Pipeline(r)
    \/ DoOp(r)
    \/ PopDel(r)

FirstReq == CHOOSE r \in Reqs : \A q \in Reqs : r <= q
FirstClient == CHOOSE c \in Clients : \A d \in Clients : c <= d

\* One worker serves the requests of one browser, one after another; the
\* clock ticks between operations.  A request that ends without its session
\* being saved leaves its record behind, as a lost cookie does.
Next ==
    \/ \E handle \in {"Redis", "NotRedis"} : SetRedis(handle)
    \/ Step(FirstReq, {FirstClient})
    \/ pc[FirstReq] = "idle" /\ Tick

Spec == Init /\ [][Next]_vars

\* No request is inside an operation, except possibly r.
Quiet(r) == \A q \in Reqs \ {r} : pc[q] \in {"idle", "returned"}

\* ---- concurrent key creation on a fresh store
\* create_key() on a record that has no key yet.
CreateKey(r) == key[r] = None /\ Regenerate(r)

\* Every worker opens a session without a cookie and creates its key; the
\* Redis calls of the workers interleave freely.
NextCreate ==
    \/ SetRedis("Redis")
    \/ \E r \in Reqs :
         \/ \E c \in Clients : Open(r, c)
         \/ Resume(r)
         \/ CreateKey(r)
         \/ \E k \in Keys : Reserve(r, k)
         \/ Check(r)
         \/ Pipeline(r)

SpecCreate == Init /\ [][NextCreate]_vars

\* ---- two requests side by side
\* Two workers, worker r serving browser r, each in one request; their Redis
\* calls interleave freely.
Pair == {r \in Reqs \cap Clients : r <= FirstReq + 1}

NextConc ==
    \/ SetRedis("Redis")
    \/ \E r \in Pair :
         \/ Open(r, r)
         \/ Resume(r)
         \/ \E f \in ShadowFields, v \in Vals : ShadowDirect(r, "set", f, v)
         \/ Regenerate(r)
         \/ ExistsOp(r)
         \/ DeleteOp(r)
         \/ \E k \in Keys : Reserve(r, k)
         \/ Check(r)
         \/ Unreserve(r)
         \/ Pipeline(r)
         \/ DoOp(r)

SpecConc == Init /\ [][NextConc]_vars

\* ---- two visits of a browser
\* Two workers, worker r serving browser r.  A visit either sets the cookie-side field "a"
\* and the shadow field "b", or flashes one message; the session is saved, the
\* request ends and the browser comes back with the cookie it was sent.
\* script[r] is where the visit stands, want[r] what it has written.
Visitors == {r \in Reqs \cap Clients : r <= FirstReq + 1}
Flashes == "_flashes"

Plan(r, s) ==
    /\ script[r] = "free"
    /\ phase[r] = "none"
    /\ script' = [script EXCEPT ![r] = s]
    /\ UNCHANGED <<want, storeVars, cookie, ifaceVars, sessVars, shadowVars, frameVars,
                   resultVars>>

Arrive(r) ==
    /\ script[r] \in {"set", "flash", "set-saved", "flash-saved"}
    /\ Quiet(r)
    /\ Open(r, r)

SetFields(r) ==
    /\ script[r] = "set"
    /\ Quiet(r)
    /\ \E v \in Vals : \/ SessionItem(r, "set", "a", v)
                       \/ ShadowDirect(r, "set", "b", v)

\* flask.flash(m): the list it reads with session.get is always the default,
\* so what it stores under "_flashes" is the one message.
Flash(r) ==
    /\ script[r] = "flash"
    /\ Flashes \notin DOMAIN want[r]
    /\ Quiet(r)
    /\ \E m \in Vals : SessionItem(r, "set", Flashes, m)

Written(r) ==
    \/ script[r] = "set" /\ {"a", "b"} \subseteq DOMAIN want[r]
    \/ script[r] = "flash" /\ Flashes \in DOMAIN want[r]

Respond(r) == Written(r) /\ Quiet(r) /\ Save(r)

Leave(r) == script[r] \in {"set-saved", "flash-saved"} /\ Idle(r) /\ EndRequest(r)

ReadFields(r) ==
    /\ script[r] = "set-back"
    /\ Quiet(r)
    /\ \/ SessionItem(r, "get", "a", None)
       \/ ShadowDirect(r, "get", "b", None)

\* The test's stand-in for get_flashed_messages.
ReadFlash(r) ==
    /\ script[r] = "flash-back"
    /\ Quiet(r)
    /\ \/ SessionItem(r, "contains", Flashes, None)
       \/ SessionItem(r, "pop", Flashes, None)

NextPosition(s, o, e) ==
    IF s = "set" /\ o.name = "save" THEN "set-saved"
    ELSE IF s = "set-saved" /\ o.name = "open" THEN "set-back"
    ELSE IF s = "flash" /\ o.name = "save" THEN "flash-saved"
    ELSE IF s = "flash-saved" /\ o.name = "open" THEN "flash-back"
    ELSE IF s = "flash-back" /\ o.name = "pop" /\ e = "ok" THEN "flash-popped"
    ELSE s

Noted(w, o, e) == IF o.name = "set" /\ e = "ok" THEN MapSet(w, o.f, o.v) ELSE w

Advance(r) ==
    /\ Taken(r)
    /\ script' = [script EXCEPT ![r] = NextPosition(@, op[r], err[r])]
    /\ want' = [want EXCEPT ![r] = Noted(@, op[r], err[r])]

NextVisit ==
    \/ SetRedis("Redis")
    \/ \E r \in Visitors :
         \/ \E s \in {"set", "flash"} : Plan(r, s)
         \/ Arrive(r)
         \/ SetFields(r)
         \/ Flash(r)
         \/ Respond(r)
         \/ Leave(r)
         \/ ReadFields(r)
         \/ ReadFlash(r)
         \/ Advance(r)
         \/ \E k \in Keys : Reserve(r, k)
         \/ Check(r)
         \/ Unreserve(r)
         \/ Pipeline(r)
         \/ DoOp(r)
         \/ PopDel(r)

SpecVisit == Init /\ [][NextVisit]_vars

\* ---- a session that ages
\* One worker serves one browser while the clock runs; script[r] remembers
\* what the call the worker completed last was: a save, an exists() that
\* answered False, a delete(), or anything else.
LastCall(o, value) ==
    IF o.name = "save" THEN "saved"
    ELSE IF o.name = "exists" /\ value = "False" THEN "healed"
    ELSE IF o.name = "delete" THEN "deleted"
    ELSE "free"

Remember(r) ==
    /\ Taken(r)
    /\ script' = [script EXCEPT ![r] = LastCall(op[r], ret[r])]
    /\ UNCHANGED want

NextAging ==
    \/ SetRedis("Redis")
    \/ \E r \in {FirstReq} :
         \/ Open(r, FirstClient)
         \/ Remember(r)
         \/ EndRequest(r)
         \/ Save(r)
         \/ \E name \in OpNames : \E v \in ArgVals(name) : SessionItem(r, name, Flashes, v)
         \/ \E name \in OpNames, f \in ShadowFields : \E v \in ArgVals(name) :
               ShadowDirect(r, name, f, v)
         \/ ExistsOp(r)
         \/ \E k \in Keys : Reserve(r, k)
         \/ Check(r)
         \/ Unreserve(r)
         \/ Pipeline(r)
         \/ DoOp(r)
         \/ PopDel(r)
    \/ pc[FirstReq] = "idle" /\ Tick

SpecAging == Init /\ [][NextAging]_vars

\* ---- a session that deletes its record
\* One worker serves one browser and may delete() the record between its
\* field operations; script[r] remembers the last call as above.
NextDelete ==
    \/ SetRedis("Redis")
    \/ \E r \in {FirstReq} :
         \/ Open(r, FirstClient)
         \/ Remember(r)
         \/ EndRequest(r)
         \/ Save(r)
         \/ \E name \in OpNames : \E v \in ArgVals(name) : SessionItem(r, name, Flashes, v)
         \/ \E name \in OpNames, f \in ShadowFields : \E v \in ArgVals(name) :
               ShadowDirect(r, name, f, v)
         \/ DeleteOp(r)
         \/ \E k \in Keys : Reserve(r, k)
         \/ Check(r)
         \/ Unreserve(r)
         \/ Pipeline(r)
         \/ DoOp(r)
         \/ PopDel(r)

SpecDelete == Init /\ [][NextDelete]_vars

\* ---- two requests of one browser
\* The browser's first request creates the key and its save sends it in the
\* cookie; from then on two workers serve requests of that browser side by
\* side, with the same key, and each writes one shadow field once, its Redis
\* calls interleaving freely with the other's.  want[r] holds what r wrote.
Established == SHADOW_KEY_NAME \in DOMAIN cookie[FirstClient]

Join(r) ==
    /\ Established \/ (r = FirstReq /\ \A q \in Pair : phase[q] = "none")
    /\ Open(r, FirstClient)

WriteOnce(r) ==
    /\ want[r] = EmptyMap
    /\ Established
    /\ key[r] = cookie[FirstClient][SHADOW_KEY_NAME]
    /\ \E v \in Vals : \/ \E f \in ShadowFields : ShadowDirect(r, "set", f, v)
                       \/ SessionItem(r, "set", Flashes, v)

NextShared ==
    \/ SetRedis("Redis")
    \/ \E r \in Pair :
         \/ Join(r)
         \/ Advance(r)
         \/ CreateKey(r)
         \/ Save(r)
         \/ EndRequest(r)
         \/ WriteOnce(r)
         \/ \E k \in Keys : Reserve(r, k)
         \/ Check(r)
         \/ Pipeline(r)
         \/ DoOp(r)

SpecShared == Init /\ [][NextShared]_vars

\* ---- an application that configures max_age
\* The application may set the interface's max_age before it serves; one
\* worker then serves one browser.
NextOverride ==
    \/ SetRedis("Redis")
    \/ \E n \in 0..MaxOverride : SetMaxAge(n)
    \/ \E r \in {FirstReq} :
         \/ Open(r, FirstClient)
         \/ Resume(r)
         \/ EndRequest(r)
         \/ Save(r)
         \/ \E f \in ShadowFields, v \in Vals : ShadowDirect(r, "set", f, v)
         \/ \E k \in Keys : Reserve(r, k)
         \/ Check(r)
         \/ Unreserve(r)
         \/ Pipeline(r)
         \/ DoOp(r)

SpecOverride == Init /\ [][NextOverride]_vars

\* ---- requests of one browser, each saved once at its end
\* Two workers serve the requests of one browser side by side while the
\* clock runs.  A request is opened, handles its field operations, is saved
\* at teardown and is over; script[r] = "saved" marks a request whose
\* save_session has completed.  The second worker joins once the cookie
\* carries a key.
Serving(r) == script[r] # "saved"

Handle(r) ==
    /\ Serving(r)
    /\ \/ \E name \in {"get", "set", "contains"}, f \in ShadowFields : \E v \in ArgVals(name) :
             ShadowDirect(r, name, f, v)
       \/ CreateKey(r)

Teardown(r) == Serving(r) /\ Save(r)

Depart(r) == script[r] = "saved" /\ EndRequest(r)

NextRequests ==
    \/ SetRedis("Redis")
    \/ \E r \in Pair :
         \/ Join(r)
         \/ Remember(r)
         \/ Handle(r)
         \/ Teardown(r)
         \/ Depart(r)
         \/ \E k \in Keys : Reserve(r, k)
         \/ Check(r)
         \/ Pipeline(r)
         \/ DoOp(r)
    \/ (\A r \in Pair : pc[r] = "idle") /\ Tick

SpecRequests == Init /\ [][NextRequests]_vars

\* ------------------------------------------------------------ properties
\* r has finished an operation and holds a key.
Created(r) == phase[r] = "open" /\ pc[r] \in {"idle", "returned"} /\ key[r] # None

\* C1: workers that call create_key() concurrently on a fresh store end up
\* with pairwise distinct keys, whatever candidates the generator hands out.
C1_DistinctKeys ==
    \A r, q \in Reqs : (r # q /\ Created(r) /\ Created(q)) => key[r] # key[q]

\* r's step is the pipeline that ends regenerate_key() on a record that
\* exists in the store.
RegenerateEnds(r) ==
    /\ pc[r] = "pipeline"
    /\ pc'[r] # "pipeline"
    /\ op[r].name = "regen"
    /\ key[r] # None
    /\ Exists(store, key[r])

\* C2: regenerate_key() on an existing record returns a key different from
\* the old one, the record's fields are all stored under the new key with
\* their values, and the old key is gone from the store.
C2_RegeneratePreserves ==
    [][\A r \in Reqs : RegenerateEnds(r) =>
          /\ err'[r] = "ok"
          /\ ret'[r] = key'[r]
          /\ key'[r] \in Keys \ {key[r]}
          /\ HFields(store', key'[r]) = HFields(store, key[r])
          /\ ~Exists(store', key[r])]_vars

C2_Witness ==
    \E r \in Reqs :
        /\ pc[r] = "returned"
        /\ op[r].name = "regen"
        /\ err[r] = "ok"
        /\ ret[r] = key[r]
        /\ DOMAIN HFields(store, key[r]) = {"b", "_flashes"}

\* r has a result in hand for a field the session forces into the record.
ForcedResult(r) ==
    /\ pc[r] = "returned"
    /\ op[r].name \in OpNames
    /\ op[r].f \in _force_shadow_fields
    /\ err[r] = "ok"

\* C4: a forced-shadow field never appears in the cookie-side mapping or in
\* the cookie; writing it stores the value in the record, and reading it,
\* testing it, deleting it and popping it answer from the record.
C4_ForcedFieldsInStore ==
    /\ \A r \in Reqs : DOMAIN sess[r] \cap _force_shadow_fields = {}
    /\ \A c \in Clients : DOMAIN cookie[c] \cap _force_shadow_fields = {}
    /\ \A r \in Reqs : ForcedResult(r) =>
          /\ key[r] \in Keys
          /\ op[r].name = "set" => HGet(store, key[r], op[r].f) = op[r].v
          /\ op[r].name = "get" =>
                ret[r] \in Vals /\ ret[r] = HGet(store, key[r], op[r].f)
          /\ op[r].name = "contains" =>
                ret[r] = BoolStr(HExists(store, key[r], op[r].f))
          /\ op[r].name = "del" => ~HExists(store, key[r], op[r].f)
          /\ op[r].name = "pop" =>
                ret[r] \in Vals /\ ~HExists(store, key[r], op[r].f)

C4_Witness ==
    \E r \in Reqs :
        /\ ForcedResult(r)
        /\ op[r].name = "get"
        /\ ret[r] \in Vals
        /\ HLen(store, key[r]) = 2

\* r's step is a whole read or write of a session field that is not forced.
CookieFieldStep(r) ==
    /\ pc[r] = "idle"
    /\ pc'[r] # "idle"
    /\ op'[r].name \in {"get", "set"}
    /\ op'[r].f \in SessionFields \ _force_shadow_fields

\* C5: reading or writing a field that is not forced touches the cookie-side
\* mapping only: it finishes in one local step, the store and the record's
\* key stay as they were, a write leaves the value in the mapping and a read
\* returns the value the mapping holds.
C5_CookieFieldsLocal ==
    [][\A r \in Reqs : CookieFieldStep(r) =>
          /\ pc'[r] = "returned"
          /\ store' = store
          /\ key' = key
          /\ accessed' = accessed
          /\ op'[r].name = "set" =>
                err'[r] = "ok" /\ MapGet(sess'[r], op'[r].f, None) = op'[r].v
          /\ (op'[r].name = "get" /\ op'[r].f \in DOMAIN sess[r]) =>
                err'[r] = "ok" /\ ret'[r] = sess[r][op'[r].f]]_vars

C5_Witness ==
    \E r \in Reqs :
        /\ pc[r] = "returned"
        /\ op[r].name = "get"
        /\ op[r].f \in SessionFields \ _force_shadow_fields
        /\ ret[r] \in Vals
        /\ key[r] # None
        /\ Exists(store, key[r])

\* r's step is a call of open_session whose arguments do not validate.
InvalidOpen(r) ==
    /\ pc[r] = "idle"
    /\ pc'[r] = "returned"
    /\ op'[r].name = "open"
    /\ (op'[r].f # "ShadowSession" \/ op'[r].v # "Redis")

SaveStep(r) == pc[r] = "idle" /\ pc'[r] = "returned" /\ op'[r].name = "save"

\* C9: save_session on a record that was not accessed, or that has no key,
\* leaves the store as it is.
C9_SaveSkips ==
    [][\A r \in Reqs : (SaveStep(r) /\ (~accessed[r] \/ key[r] = None)) =>
          store' = store]_vars

\* Saved without an access, while the record is alive with time run down.
C9_Witness ==
    \E r \in Reqs :
        /\ pc[r] = "returned"
        /\ op[r].name = "save"
        /\ ~accessed[r]
        /\ key[r] # None
        /\ key[r] \in DOMAIN store.ttl
        /\ store.ttl[key[r]] < Lifetime

\* C3: after a request that set the cookie-side field a and the shadow
\* field b and was saved, the cookie holds a with its value and shadow_key
\* but not b; the next request opened from that cookie reads the value
\* written to a from the session and the value written to b from its record.
C3_SetReload ==
    \A r \in Visitors :
        /\ (script[r] = "set" /\ pc[r] = "returned" /\ op[r].name = "save") =>
              LET sent == cookie[client[r]]
              IN /\ "a" \in DOMAIN sent
                 /\ sent["a"] = want[r]["a"]
                 /\ SHADOW_KEY_NAME \in DOMAIN sent
                 /\ sent[SHADOW_KEY_NAME] = key[r]
                 /\ "b" \notin DOMAIN sent
        /\ (script[r] = "set-back" /\ pc[r] = "returned" /\ op[r].name = "get") =>
              err[r] = "ok" /\ ret[r] = want[r][op[r].f]

\* The second visit has read b, and b was written with another value than a.
C3_Witness ==
    \E r \in Visitors :
        /\ script[r] = "set-back"
        /\ pc[r] = "returned"
        /\ op[r] = ItemFrame("get", "b", None)
        /\ ret[r] = want[r]["b"]
        /\ want[r]["a"] # want[r]["b"]
        /\ "b" \notin DOMAIN sess[r]

\* r's step ends the pop of the flashed message.
PopEnds(r) ==
    /\ script[r] = "flash-back"
    /\ op[r].name = "pop"
    /\ pc[r] # "returned"
    /\ pc'[r] = "returned"

\* C8: a session opened from the cookie of a saved request that flashed one
\* message sees a record of length 1 holding that message, until it pops the
\* flash field; the pop returns the message and leaves the record's length 0.
C8_FlashOnce ==
    [][\A r \in Visitors :
          /\ (script'[r] = "flash-back" /\ op'[r].name # "pop") =>
                /\ HLen(store', key'[r]) = 1
                /\ HGet(store', key'[r], Flashes) = want'[r][Flashes]
          /\ PopEnds(r) =>
                /\ err'[r] = "ok"
                /\ ret'[r] = want[r][Flashes]
                /\ HLen(store', key'[r]) = 0]_vars

C8_Witness ==
    \E r \in Visitors :
        /\ script[r] = "flash-popped"
        /\ key[r] # None
        /\ HLen(store, key[r]) = 0
        /\ Flashes \in DOMAIN want[r]

\* r's step is exists().
ExistsStep(r) == pc[r] = "idle" /\ pc'[r] = "returned" /\ op'[r].name = "exists"

\* r's step ends the field access that follows an exists() that answered
\* False.
HealedAccessEnds(r) ==
    /\ script[r] = "healed"
    /\ op[r].name \in OpNames
    /\ pc[r] # "returned"
    /\ pc'[r] = "returned"

\* C6 as amended: exists() answers False exactly when the key is absent from
\* the store, and then removes shadow_key from the cookie-side session and
\* resets the key to None.  The field access that follows goes through
\* _create_hash; its pipeline sets a key, writes it to the session and finds
\* no field under it; the access ends with the generation error and no key
\* when the attempts are exhausted, and otherwise without one, on a record
\* that holds nothing but what the access itself wrote.
C6_SelfHealing ==
    [][\A r \in Reqs :
          /\ ExistsStep(r) =>
                /\ ret'[r] = BoolStr(Exists(store, key[r]))
                /\ ret'[r] = "False" =>
                      key'[r] = None /\ SHADOW_KEY_NAME \notin DOMAIN sess'[r]
          /\ (script[r] = "healed" /\ pc[r] = "idle" /\ op'[r].name \in OpNames) =>
                pc'[r] = "reserve"
          /\ (script[r] = "healed" /\ pc[r] = "pipeline" /\ pc'[r] # "pipeline") =>
                /\ pc'[r] = "op"
                /\ key'[r] \in Keys
                /\ MapGet(sess'[r], SHADOW_KEY_NAME, None) = key'[r]
                /\ HFields(store', key'[r]) = EmptyMap
          /\ HealedAccessEnds(r) =>
                \/ /\ err'[r] = "ValueError"
                   /\ key'[r] = None
                   /\ attempts[r] + 1 = MaxAttempts
                \/ /\ err'[r] \in {"ok", "KeyError"}
                   /\ key'[r] \in Keys
                   /\ DOMAIN HFields(store', key'[r]) \subseteq
                         (IF op[r].name = "set" THEN {op[r].f} ELSE {})]_vars

\* The access after the healing has written the only field of a new record.
C6_Witness ==
    \E r \in Reqs :
        /\ script[r] = "healed"
        /\ pc[r] = "returned"
        /\ op[r].name = "set"
        /\ err[r] = "ok"
        /\ key[r] \in Keys
        /\ sess[r][SHADOW_KEY_NAME] = key[r]
        /\ DOMAIN HFields(store, key[r]) = {op[r].f}

\* C6 as stated: the field access that follows an exists() that answered
\* False ends without an error (a KeyError for a field the new record does
\* not hold is the mapping's ordinary answer and is not counted).
C6_AccessSucceeds ==
    [][\A r \in Reqs : HealedAccessEnds(r) => err'[r] \in {"ok", "KeyError"}]_vars

\* r's step is a save_session that follows a save_session directly.
SecondSave(r) == script[r] = "saved" /\ SaveStep(r)

\* C10 as amended: the second of two save_session calls in a row writes
\* nothing but the TTL of the record's key, which it sets to max_age again
\* when the record was accessed and still exists; no key's TTL exceeds
\* max_age afterwards, and the cookie is the one the first call wrote.
C10_SecondSaveRefreshes ==
    [][\A r \in Reqs : SecondSave(r) =>
          /\ store'.hashes = store.hashes
          /\ store'.strings = store.strings
          /\ DOMAIN store'.ttl = DOMAIN store.ttl
          /\ \A k \in DOMAIN store.ttl :
                store'.ttl[k] =
                    IF k = key[r] /\ accessed[r] THEN max_age[r][1] ELSE store.ttl[k]
          /\ \A k \in DOMAIN store'.ttl : store'.ttl[k] <= max_age[r][1]
          /\ cookie' = cookie]_vars

\* The second save has refreshed the accessed record.
C10_Witness ==
    \E r \in Reqs :
        /\ script[r] = "saved"
        /\ pc[r] = "returned"
        /\ op[r].name = "save"
        /\ accessed[r]
        /\ key[r] \in DOMAIN store.ttl
        /\ store.ttl[key[r]] = Lifetime

\* C10 as stated: the second of two save_session calls in a row writes
\* nothing to the store, and no record's TTL exceeds max_age afterwards.
C10_SecondSaveSilent ==
    [][\A r \in Reqs : SecondSave(r) =>
          /\ store' = store
          /\ \A k \in DOMAIN store'.ttl : store'.ttl[k] <= max_age[r][1]]_vars

\* r is inside the loop of _create_hash, and how far the loop has come.
InLoop(r) == pc[r] \in {"reserve", "check", "unreserve"}
LoopProgress(r) ==
    3 * attempts[r] + (IF pc[r] = "check" THEN 1 ELSE IF pc[r] = "unreserve" THEN 2 ELSE 0)

\* r's step is a step of that loop.
LoopStep(r) == InLoop(r) /\ (pc'[r] # pc[r] \/ attempts'[r] # attempts[r])

MarkersOwned ==
    \A m \in store.strings :
        /\ m \in DOMAIN owner
        /\ pc[owner[m]] \in {"check", "unreserve", "pipeline"}
        /\ reserve_key[owner[m]] = m

\* C12: a create_key() call that has finished, with a key or by exhaustion,
\* has left none of its reservations in the store, and a reservation leaves
\* the store only by a step of the call that set it.
C12_MarkersReleased ==
    [][/\ MarkersOwned'
       /\ \A m \in store.strings \ store'.strings :
             /\ pc[owner[m]] \in {"unreserve", "pipeline"}
             /\ pc'[owner[m]] # pc[owner[m]]
             /\ reserve_key[owner[m]] = m]_vars

\* A call gave up while the other call's reservation stayed in place.
C12_Witness ==
    \E r, q \in Reqs :
        /\ r # q
        /\ pc[r] = "returned"
        /\ err[r] = "ValueError"
        /\ pc[q] = "check"
        /\ store.strings = {reserve_key[q]}
        /\ \E k \in Keys : HLen(store, k) > 0

\* r's step is delete().
DeleteStep(r) == pc[r] = "idle" /\ pc'[r] = "returned" /\ op'[r].name = "delete"

\* r's step ends the field access that follows a delete().
AccessAfterDeleteEnds(r) ==
    /\ script[r] = "deleted"
    /\ op[r].name \in OpNames
    /\ pc[r] # "returned"
    /\ pc'[r] = "returned"

OwnStep(r) == pc'[r] # pc[r] \/ attempts'[r] # attempts[r] \/ phase'[r] # phase[r]

\* r's step begins a shadow get, set, delete or pop.
AccessBegins(r) == pc[r] = "idle" /\ op'[r].name \in {"get", "set", "del", "pop"} /\
                   pc'[r] \in {"reserve", "op"}

\* r's step executes the pipeline that renames its record.
RotateStep(r) == pc[r] = "pipeline" /\ pc'[r] # "pipeline" /\ key[r] # None

\* C14: every shadow get, set or delete marks the record accessed and the
\* mark stays until the session is opened again or the request is over; a
\* save_session of a marked record that has max_age and a stored record
\* under its key sets that record's time to live to max_age and leaves its
\* fields alone.  A step of a request whose record is not marked, other than
\* the pipeline that renames the record, changes the time to live of no
\* record that is in the store after it.
C14_SaveRefreshesTTL ==
    [][\A r \in Reqs :
          /\ AccessBegins(r) => accessed'[r]
          /\ (accessed[r] /\ ~accessed'[r]) =>
                (op'[r].name = "open" \/ phase'[r] = "none")
          /\ (SaveStep(r) /\ accessed[r] /\ key[r] # None /\ max_age[r] # <<>>
                /\ Exists(store, key[r])) =>
                /\ key[r] \in DOMAIN store'.ttl
                /\ store'.ttl[key[r]] = max_age[r][1]
                /\ store'.hashes = store.hashes
          /\ (OwnStep(r) /\ ~accessed[r] /\ ~RotateStep(r)) =>
                \A k \in Keys : Exists(store', k) =>
                    /\ Exists(store, k)
                    /\ (k \in DOMAIN store'.ttl) = (k \in DOMAIN store.ttl)
                    /\ MapGet(store'.ttl, k, 0) = MapGet(store.ttl, k, 0)]_vars

\* A request accessed a field of a stored record, and its save has set the
\* record's time to live to max_age.
C14_Witness ==
    \E r \in Reqs :
        /\ pc[r] = "returned"
        /\ op[r].name = "save"
        /\ accessed[r]
        /\ max_age[r] # <<>>
        /\ key[r] \in Keys
        /\ HLen(store, key[r]) > 0
        /\ key[r] \in DOMAIN store.ttl
        /\ store.ttl[key[r]] = max_age[r][1]

\* r's step begins a shadow item operation.
ItemBegins(r) == pc[r] = "idle" /\ op'[r].name \in OpNames /\ pc'[r] \in {"reserve", "op"}

\* r is inside a shadow item operation.
InItem(r) == op[r].name \in OpNames /\ pc[r] \notin {"idle", "returned"}

\* C15: a shadow item operation goes through _create_hash exactly when the
\* record has no key.  Begun without a key, the operation changes the key
\* once, in the pipeline that precedes the store operation, to a key that is
\* written to the session and names an empty record, so that a write ends on
\* a record of that one field.  Begun with a key, it goes straight to the
\* store operation, and no step of it changes the key or the session's
\* shadow_key.
C15_CreateIffNoKey ==
    [][\A r \in Reqs :
          /\ ItemBegins(r) =>
                /\ (pc'[r] = "reserve") = (key[r] = None)
                /\ key'[r] = key[r]
                /\ sess'[r] = sess[r]
          /\ (InItem(r) /\ OwnStep(r) /\ pc[r] = "pipeline" /\ pc'[r] # "pipeline") =>
                /\ key[r] = None
                /\ key'[r] \in Keys
                /\ pc'[r] = "op"
                /\ sess'[r] = MapSet(sess[r], SHADOW_KEY_NAME, key'[r])
                /\ HFields(store', key'[r]) = EmptyMap
          /\ (InItem(r) /\ OwnStep(r) /\ pc[r] # "pipeline") =>
                /\ key'[r] = key[r]
                /\ sess'[r] = sess[r]
          /\ (InItem(r) /\ pc[r] = "op") => key[r] # None
          /\ (InItem(r) /\ pc[r] = "op" /\ op[r].name = "set" /\ pc'[r] = "returned") =>
                HFields(store', key[r]) = MapSet(HFields(store, key[r]), op[r].f, op[r].v)]_vars

\* The first request of a browser wrote a field: the key was made on the
\* way and its record holds that field only.
C15_Witness ==
    \E r \in Reqs :
        /\ pc[r] = "returned"
        /\ op[r].name = "set"
        /\ err[r] = "ok"
        /\ cookie[client[r]] = EmptyMap
        /\ key[r] \in Keys
        /\ sess[r][SHADOW_KEY_NAME] = key[r]
        /\ HFields(store, key[r]) = MapSet(EmptyMap, op[r].f, op[r].v)

\* r's step is an open_session that succeeds.
OpenStep(r) == pc[r] = "idle" /\ pc'[r] = "returned" /\ op'[r].name = "open" /\ err'[r] = "ok"

\* r is inside a shadow get, set, delete or pop, or has just come out of it.
InAccess(r) ==
    /\ op[r].name \in {"get", "set", "del", "pop"}
    /\ op[r].f \in ShadowFields \cup _force_shadow_fields
    /\ pc[r] # "idle"

\* C16: open_session leaves accessed false.  The first step of a shadow get,
\* set or delete sets accessed and session.modified and does nothing to the
\* key or the store; both flags are set all through the operation and when
\* it has returned, whatever it raised.
C16_FlagsFirst ==
    [][\A r \in Reqs :
          /\ OpenStep(r) => ~accessed'[r]
          /\ AccessBegins(r) =>
                /\ accessed'[r]
                /\ modified'[r]
                /\ key'[r] = key[r]
                /\ store' = store
          /\ InAccess(r) => (accessed[r] /\ modified[r])
          /\ InAccess(r)' => (accessed'[r] /\ modified'[r])]_vars

\* A write failed in key generation, with no key and nothing written, and
\* both flags are set.
C16_Witness ==
    \E r \in Reqs :
        /\ pc[r] = "returned"
        /\ op[r].name = "set"
        /\ err[r] = "ValueError"
        /\ key[r] = None
        /\ SHADOW_KEY_NAME \notin DOMAIN sess[r]
        /\ accessed[r]
        /\ modified[r]

\* The field writes r has completed.
Wrote(r) == IF pc[r] = "returned" THEN Noted(want[r], op[r], err[r]) ELSE want[r]

\* The values the workers have written to field f.
WrittenTo(f) == {Wrote(r)[f] : r \in {q \in Pair : f \in DOMAIN Wrote(q)}}

\* Every field that was written is in the browser's record, with a value
\* that one of the workers wrote to it.
WritesRetained ==
    \A f \in ShadowFields \cup _force_shadow_fields :
        WrittenTo(f) # {} =>
            LET k == cookie[FirstClient][SHADOW_KEY_NAME]
            IN /\ Established
               /\ HExists(store, k, f)
               /\ HGet(store, k, f) \in WrittenTo(f)

\* C17: of two requests that write to the record of one key side by side,
\* each write sets its own field to its value and changes no other field
\* (so the later write to a field is the one that stays), and at every
\* moment each written field is in the record with a value written to it by
\* one of the two: writes to different fields are both there, writes to the
\* same field leave one of the two values.
C17_ConcurrentWrites ==
    [][/\ WritesRetained'
       /\ \A r \in Pair :
            (pc[r] = "op" /\ op[r].name = "set" /\ pc'[r] = "returned") =>
                /\ HFields(store', key[r]) =
                      MapSet(HFields(store, key[r]), op[r].f, op[r].v)
                /\ \A k \in Keys \ {key[r]} : HFields(store', k) = HFields(store, k)]_vars

\* Both workers have come back from overlapping writes to different fields
\* of the same key, and the record holds both.
C17_Witness ==
    \E r, q \in Pair :
        /\ r # q
        /\ key[r] = key[q]
        /\ key[r] \in Keys
        /\ pc[r] = "returned" /\ op[r].name = "set" /\ op[r].f = "b"
        /\ pc[q] = "returned" /\ op[q].name = "set" /\ op[q].f = Flashes
        /\ HFields(store, key[r]) = MapSet(MapSet(EmptyMap, "b", op[r].v), Flashes, op[q].v)

\* C18: the max_age a session's shadow record was opened with is the
\* interface's override whenever one is configured, whatever its value, and
\* the permanent session lifetime only when none is configured.
C18_OverridePassed ==
    \A r \in Reqs :
        phase[r] = "open" =>
            max_age[r] = (IF iface_max_age # <<>> THEN iface_max_age ELSE Some(Lifetime))

\* C19: whenever a bound record has come back from an operation without an
\* error (open, a field operation, create_key, regenerate_key, exists,
\* delete, save), its key is the session's shadow_key, and it is None
\* exactly when the session has no shadow_key.
C19_KeyMirrorsSession ==
    \A r \in Reqs :
        (phase[r] = "open" /\ pc[r] = "returned" /\ err[r] = "ok") =>
            key[r] = MapGet(sess[r], SHADOW_KEY_NAME, None)

\* C20: the sessions of two different browsers, whatever their requests do
\* and however the Redis calls of the requests interleave, never hold the
\* same key at a moment when both are between operations.
C20_ClientsIsolated ==
    \A r, q \in Reqs :
        (r # q /\ Created(r) /\ Created(q) /\ client[r] # client[q]) =>
            key[r] # key[q]

\* r's step ends a regenerate_key() on a record whose key is the one the
\* browser's cookie carries and names nothing in the store.
RegenerateOnMissingEnds(r) ==
    /\ op[r].name = "regen"
    /\ pc[r] \in {"reserve", "check", "unreserve", "pipeline"}
    /\ pc'[r] = "returned"
    /\ key[r] # None
    /\ MapGet(cookie[client[r]], SHADOW_KEY_NAME, None) = key[r]
    /\ ~Exists(store, key[r])

\* C21: regenerate_key() on a record whose key came from the cookie and whose
\* stored record is gone ends with the record's key equal to the session's
\* shadow_key and with no reservation marker in the store.
C21_RegenerateOnMissing ==
    [][\A r \in Reqs : RegenerateOnMissingEnds(r) =>
          /\ key'[r] = MapGet(sess'[r], SHADOW_KEY_NAME, None)
          /\ store'.strings = {}]_vars

\* C22 (as stated): with max_age set, when a request's save_session has
\* completed, a record stored under that session's current key has an
\* expiry.
C22_SavedRecordHasExpiry ==
    [][\A r \in Reqs :
          (SaveStep(r) /\ max_age[r] # <<>> /\ key[r] # None /\ Exists(store', key[r])) =>
              key[r] \in DOMAIN store'.ttl]_vars

\* C22 (amended): a request that writes a field is marked accessed from the
\* write until its save_session has completed, and with max_age set the
\* save_session of a request marked accessed leaves the record stored under
\* its current key with an expiry; the save_session of a request that is
\* not marked leaves the store as it is.
C22_AccessedSaveSetsExpiry ==
    [][\A r \in Reqs :
          /\ (pc[r] = "op" /\ op[r].name = "set") => accessed[r]
          /\ (accessed[r] /\ ~accessed'[r]) => script[r] = "saved"
          /\ (SaveStep(r) /\ accessed[r] /\ max_age[r] # <<>> /\ key[r] # None
                /\ Exists(store', key[r])) =>
                key[r] \in DOMAIN store'.ttl
          /\ (SaveStep(r) /\ ~accessed[r]) =>
                store'.ttl = store.ttl]_vars

\* A request that wrote a field has been saved and its record has an expiry,
\* while another request of the same key, which accessed nothing, is open.
C22_Witness ==
    \E r, q \in Pair :
        /\ r # q
        /\ pc[r] = "returned"
        /\ op[r].name = "save"
        /\ accessed[r]
        /\ key[r] \in Keys
        /\ HLen(store, key[r]) > 0
        /\ key[r] \in DOMAIN store.ttl
        /\ phase[q] = "open"
        /\ key[q] = key[r]
        /\ ~accessed[q]

=============================================================================
